---- MODULE Spec2Model ----
(***************************************************************************)
(* aoc_runner (src/main.rs): a command line helper with two modes.         *)
(*   run  : load (or prompt for and persist) the session credential, fetch *)
(*          the day's puzzle input unless it is cached, generate the       *)
(*          src/bin/dayN.rs entry point unless it exists, spawn cargo.     *)
(*   stub : create src/problems/dayN.rs exclusively and append its         *)
(*          registration to src/problems/mod.rs.                           *)
(* The state is the file system the tool works on plus, per invocation,    *)
(* the position in main/run/stub and its local variables.  Every `?` of    *)
(* the source is a point where the environment may make the call fail.     *)
(* Files are byte sequences; bytes are small integers.                     *)
(***************************************************************************)
EXTENDS Integers, Sequences, FiniteSets, TLC

\* ---------------------------------------------------------------- bounds
\* Elapsed times are sampled this far on either side of each unit threshold.
Margin == 20
\* Total number of invocations of the tool in one behaviour.
MaxInvocations == 2
\* Number of invocations that may overlap in the concurrent specifications.
NumProcs == 2

\* ------------------------------------------------------- Option<T> values
None == <<>>
Some(x) == <<x>>
IsSome(o) == o # <<>>
Unwrap(o) == o[1]

\* ------------------------------------------------------------ input sets
\* Values given to --day on the command line (None: the flag is absent).
RawDayArgs == {None, Some(7), Some(25)}
\* Values the local clock may report as day of month.
TodayChoices == {7, 31}
\* Values given to --year (None: absent) and years the local clock reports.
YearArgs == {None, Some(2020)}
NowYears == {2021}
\* Session values the operator may type at the prompt.
Tokens == {41, 42}
\* Days for which the tool may touch files in this model.
Days == {7, 31}
\* Content of a file the operator wrote by hand.
Arbitrary == <<9>>

Procs == 1..NumProcs

\* ------------------------------------------------------- pure functions
\* possible_values of --day: 1 .. 24
DayArgAccepted(d) == d \in 1..24
\* possible_values of --part
Parts == {1, 2}

\* ResolveDay with the --day argument dropped.
ResolveDayClockOnly(dayArg, today) == today % 256

\* args.day.unwrap_or_else(|| Local::now().day() as u8)
ResolveDay(dayArg, today) == IF IsSome(dayArg) THEN Unwrap(dayArg) ELSE today % 256

\* args.year.unwrap_or_else(|| Local::now().year() as u16)
ResolveYear(yearArg, now) == IF IsSome(yearArg) THEN Unwrap(yearArg) ELSE now % 65536

\* format!("day{}", day): the byte 68 stands for the prefix "day".
DayName(d) == <<68, d>>

\* args.input_dir joined with day_name; 73 stands for the default "inputs".
InputPath(d) == <<73>> \o DayName(d)

\* The paths under the cache root.
CachePaths == { InputPath(d) : d \in Days }

\* DAY_EXEC_TEMPLATE with {{day}} replaced by day_name; 85 stands for the
\* fixed text around the substitution.
RenderExec(name) == <<85>> \o name

\* DAY_PROBLEM_STUB, a fixed text.
DAY_PROBLEM_STUB == <<80, 83>>

\* The two lines appended to src/problems/mod.rs for a day: the cfg
\* attribute line and the `pub mod dayN;` line.
CfgLine(d) == 100 + d
ModLine(d) == 200 + d
Registration(d) == <<CfgLine(d), ModLine(d)>>

\* serde_json::to_writer_pretty(&Data { session }): 123 and 125 are the braces.
ToJson(session) == <<123, session, 125>>

\* serde_json::from_reader::<Data>: Some(session) or None on a parse error.
FromJson(bytes) ==
    IF Len(bytes) = 3 /\ bytes[1] = 123 /\ bytes[3] = 125 /\ bytes[2] \in Tokens
    THEN Some(bytes[2]) ELSE None

\* The body the puzzle host serves for (year, day) when it answers 200.
Remote(y, d) == IF y = 2020 THEN <<d, 20>> ELSE <<d + 21>>

\* A write of `data` at offset 0 of a file holding `old`, without truncation.
WriteAt0(old, data) ==
    IF Len(data) >= Len(old) THEN data
    ELSE data \o SubSeq(old, Len(data) + 1, Len(old))

\* What write_all may leave behind when it fails: a proper prefix written.
PartialWrites(old, data) ==
    { WriteAt0(old, SubSeq(data, 1, k)) : k \in 0..(Len(data) - 1) }

\* What an append of `data` may leave behind when it fails.
PartialAppends(old, data) ==
    { old \o SubSeq(data, 1, k) : k \in 0..(Len(data) - 1) }

\* The unit thresholds of the duration display, in nanoseconds.
Threshold(unit) ==
    CASE unit = "s" -> 1000000000
      [] unit = "ms" -> 1000000
      [] unit = "us" -> 1000
      [] OTHER -> 1

\* FormatDuration with inclusive thresholds (>= in place of >).
FormatDurationInclusive(ns) ==
    LET unit == IF ns >= Threshold("s") THEN "s"
                ELSE IF ns >= Threshold("ms") THEN "ms"
                ELSE IF ns >= Threshold("us") THEN "us"
                ELSE "ns"
    IN [unit |-> unit, divisor |-> Threshold(unit)]

\* The duration display: the largest unit whose threshold the elapsed value
\* exceeds, else raw nanoseconds; the value shown is the elapsed value
\* divided by `divisor`, followed by the unit suffix.
FormatDuration(ns) ==
    LET unit == IF ns > Threshold("s") THEN "s"
                ELSE IF ns > Threshold("ms") THEN "ms"
                ELSE IF ns > Threshold("us") THEN "us"
                ELSE "ns"
    IN [unit |-> unit, divisor |-> Threshold(unit)]

\* Elapsed times, in nanoseconds, the display is tried on.
ElapsedSamples ==
    {0, 500, 1500000}
    \cup UNION { (Threshold(u) - Margin)..(Threshold(u) + Margin) : u \in {"s", "ms", "us"} }

\* Number of occurrences of x in the sequence s.
Count(s, x) == Cardinality({ i \in 1..Len(s) : s[i] = x })

\* ----------------------------------------------------------------- state
VARIABLES
    cred,       \* Option<bytes>: <data_dir>/aoc_runner.json
    cache,      \* [CachePaths -> Option<bytes>]: <input_dir>/dayN
    bin,        \* [Days -> Option<bytes>]: src/bin/dayN.rs
    stubFile,   \* [Days -> Option<bytes>]: src/problems/dayN.rs
    modIndex,   \* Option<lines>: src/problems/mod.rs
    proc,       \* [Procs -> invocation record]
    prompts,    \* number of times the operator answered the prompt
    started,    \* number of invocations started
    timing      \* the elapsed time of a child and how the dispatcher shows it

vars == <<cred, cache, bin, stubFile, modIndex, proc, prompts, started, timing>>
fsVars == <<cred, cache, bin, stubFile, modIndex>>

NoErr == [msg |-> "", ctx |-> <<>>]

IdleProc ==
    [ pc        |-> "idle",
      command   |-> "none",
      dayArg    |-> None,      \* args.day
      yearArg   |-> None,      \* RunCommand.year
      today     |-> None,      \* Some(what Local::now().day() returned), if it was called
      day       |-> 0,         \* day (main, line 208)
      session   |-> 0,         \* data.session
      year      |-> 0,         \* year (line 106)
      body      |-> <<>>,      \* body (line 111)
      err       |-> NoErr,     \* the error main returned
      effects   |-> {},        \* what this invocation did to its environment
      netCalls  |-> 0,         \* requests this invocation sent
      response  |-> "none",    \* how the puzzle host answered the request
      inputSeen |-> None,      \* what input.exists() saw: None, Some(None), Some(Some(c))
      child     |-> None ]     \* Some(command line and exit status of the child)

\* No child has been timed.
NoTiming == [elapsed |-> 0, shown |-> None]

Init ==
    /\ timing = NoTiming
    /\ cred \in {None} \cup { Some(ToJson(t)) : t \in Tokens }
    /\ cache \in [CachePaths -> {None, Some(Arbitrary)}]
    /\ bin \in [Days -> {None, Some(Arbitrary)}]
    /\ stubFile = [d \in Days |-> None]
    /\ modIndex \in {None, Some(<<>>)}
    /\ proc = [p \in Procs |-> IdleProc]
    /\ prompts = 0
    /\ started = 0

\* ------------------------------------------------------------ primitives
Running(p) == proc[p].pc \notin {"idle", "done", "failed"}

\* Where run would go on if the error of a step were dropped: the first step
\* of the next stage.
NextStage(pc) ==
    CASE pc \in {"r_datadir", "r_cred_exists", "r_prompt", "r_cred_create",
                 "r_cred_ser", "r_cred_open", "r_cred_read"} -> "r_input_exists"
      [] pc \in {"r_input_exists", "r_send", "r_cache_open", "r_cache_write"} -> "r_bin_exists"
      [] pc \in {"r_bin_exists", "r_render", "r_bin_create", "r_bin_write"} -> "r_spawn"
      [] pc = "r_spawn" -> "done"
      [] OTHER -> "failed"

\* Propagate with the error logged instead of returned (`?` missing).
PropagateContinue(r, msg, ctx) ==
    [r EXCEPT !.pc = NextStage(r.pc), !.err = [msg |-> msg, ctx |-> ctx]]

\* The `?` operator: the error is wrapped with its context and returned, and
\* main returns it in turn: nothing else of the invocation runs.  The locals
\* of the returning function are dropped.
Propagate(r, msg, ctx) ==
    [r EXCEPT !.pc = "failed", !.err = [msg |-> msg, ctx |-> ctx],
              !.session = 0, !.year = 0, !.body = <<>>]

\* Ok(()) returned to main: the invocation ends with success.
Return(r) == [r EXCEPT !.pc = "done", !.session = 0, !.year = 0, !.body = <<>>]

Set(p, r) == proc' = [proc EXCEPT ![p] = r]

Did(r, e) == [r EXCEPT !.effects = @ \cup {e}]

Goto(r, l) == [r EXCEPT !.pc = l]

\* ------------------------------------------------------------------ main
\* Dispatch with both arms of the match calling run.
DispatchRunOnly(command) == "r_datadir"

\* match args.command: the first step of the function main calls.
Dispatch(command) == IF command = "run" THEN "r_datadir" ELSE "s_create"

\* Args::from_args() and the resolution of the day.  A --day value outside
\* possible_values makes from_args exit before anything else runs.
Main(p) ==
    /\ ~Running(p)
    /\ started < MaxInvocations
    /\ started' = started + 1
    /\ \E command \in {"run", "stub"}, dayArg \in RawDayArgs,
          yearArg \in YearArgs, today \in TodayChoices :
         /\ command = "stub" => yearArg = None
         /\ LET r == [IdleProc EXCEPT !.command = command,
                                      !.dayArg = dayArg,
                                      !.yearArg = yearArg]
            IN  IF IsSome(dayArg) /\ ~DayArgAccepted(Unwrap(dayArg))
                THEN Set(p, Propagate(r, "invalid value for --day", <<>>))
                ELSE Set(p, [r EXCEPT !.today = IF IsSome(dayArg) THEN None ELSE Some(today),
                                      !.day = ResolveDay(dayArg, today),
                                      !.pc = Dispatch(command)])
    /\ UNCHANGED <<fsVars, prompts, timing>>

\* ------------------------------------------------------------------ stub
\* StubCreate with create(true) in place of create_new(true): the open
\* succeeds on a file that exists.
StubCreateNotExclusive(p) ==
    LET r == proc[p]  d == r.day IN
    /\ r.pc = "s_create"
    /\ \/ /\ Set(p, Propagate(r, "Could not open day stub file", <<>>))
          /\ UNCHANGED stubFile
       \/ /\ stubFile' = [stubFile EXCEPT ![d] = IF @ = None THEN Some(<<>>) ELSE @]
          /\ Set(p, Goto(Did(r, "stub_create"), "s_write"))
    /\ UNCHANGED <<cred, cache, bin, modIndex, prompts, started, timing>>

\* OpenOptions::new().create_new(true).write(true).open(stub)?
StubCreate(p) ==
    LET r == proc[p]  d == r.day IN
    /\ r.pc = "s_create"
    /\ \/ \* the file exists, or the open fails for another reason
          /\ Set(p, Propagate(r, "Could not open day stub file", <<>>))
          /\ UNCHANGED stubFile
       \/ /\ stubFile[d] = None
          /\ stubFile' = [stubFile EXCEPT ![d] = Some(<<>>)]
          /\ Set(p, Goto(Did(r, "stub_create"), "s_write"))
    /\ UNCHANGED <<cred, cache, bin, modIndex, prompts, started, timing>>

\* stub.write_all(DAY_PROBLEM_STUB.as_bytes())?
StubWrite(p) ==
    LET r == proc[p]  d == r.day  old == Unwrap(stubFile[d]) IN
    /\ r.pc = "s_write"
    /\ \/ /\ stubFile' = [stubFile EXCEPT ![d] = Some(WriteAt0(old, DAY_PROBLEM_STUB))]
          /\ Set(p, Goto(Did(r, "stub_write"), "s_mod_open"))
       \/ /\ \E c \in PartialWrites(old, DAY_PROBLEM_STUB) :
                stubFile' = [stubFile EXCEPT ![d] = Some(c)]
          /\ Set(p, Propagate(Did(r, "stub_write"), "Could not write day stub", <<>>))
    /\ UNCHANGED <<cred, cache, bin, modIndex, prompts, started, timing>>

\* OpenOptions::new().append(true).write(true).create(false)
\*     .open("src/problems/mod.rs")?
ModOpen(p) ==
    LET r == proc[p] IN
    /\ r.pc = "s_mod_open"
    /\ \/ \* the file is missing (create(false)) or cannot be opened
          Set(p, Propagate(r, "Could not open mod file", <<>>))
       \/ /\ modIndex # None
          /\ Set(p, Goto(Did(r, "mod_open"), "s_mod_write"))
    /\ UNCHANGED <<fsVars, prompts, started, timing>>

\* mod_file.write_all(format!("#[cfg(feature = \"day{day}\"]\npub mod day{day};\n"))?
ModAppend(p) ==
    LET r == proc[p]  d == r.day  old == Unwrap(modIndex) IN
    /\ r.pc = "s_mod_write"
    /\ \/ /\ modIndex' = Some(old \o Registration(d))
          /\ Set(p, Return(Did(r, "mod_append")))
       \/ /\ \E c \in PartialAppends(old, Registration(d)) : modIndex' = Some(c)
          /\ Set(p, Propagate(Did(r, "mod_append"), "Could not edit the mod file", <<>>))
    /\ UNCHANGED <<cred, cache, bin, stubFile, prompts, started, timing>>

Stub(p) == StubCreate(p) \/ StubWrite(p) \/ ModOpen(p) \/ ModAppend(p)

\* ------------------------------------------------------------------- run
\* dirs_next::data_dir().ok_or(eyre!("No data dir found"))?
DataDir(p) ==
    LET r == proc[p] IN
    /\ r.pc = "r_datadir"
    /\ \/ Set(p, Propagate(r, "No data dir found", <<>>))
       \/ Set(p, Goto(r, "r_cred_exists"))
    /\ UNCHANGED <<fsVars, prompts, started, timing>>

\* CredExists without the existence test: every run prompts.
CredExistsIgnored(p) ==
    LET r == proc[p] IN
    /\ r.pc = "r_cred_exists"
    /\ Set(p, Goto(r, "r_prompt"))
    /\ UNCHANGED <<fsVars, prompts, started, timing>>

\* if !data_dir.exists()
CredExists(p) ==
    LET r == proc[p] IN
    /\ r.pc = "r_cred_exists"
    /\ Set(p, Goto(r, IF cred = None THEN "r_prompt" ELSE "r_cred_open"))
    /\ UNCHANGED <<fsVars, prompts, started, timing>>

\* promptly::prompt("Your session value")?
Prompt(p) ==
    LET r == proc[p] IN
    /\ r.pc = "r_prompt"
    /\ \/ /\ Set(p, Propagate(Did(r, "prompt"), "Could not read the session value", <<>>))
          /\ UNCHANGED prompts
       \/ /\ \E t \in Tokens :
               Set(p, Goto([Did(r, "prompt") EXCEPT !.session = t], "r_cred_create"))
          /\ prompts' = prompts + 1
    /\ UNCHANGED <<fsVars, started, timing>>

\* OpenOptions::new().create(true).write(true).truncate(true).open(&data_dir)?
CredCreate(p) ==
    LET r == proc[p] IN
    /\ r.pc = "r_cred_create"
    /\ \/ /\ Set(p, Propagate(r, "Could not open data file", <<>>))
          /\ UNCHANGED cred
       \/ /\ cred' = Some(<<>>)
          /\ Set(p, Goto(Did(r, IF cred = None THEN "cred_create" ELSE "cred_truncate"),
                         "r_cred_ser"))
    /\ UNCHANGED <<cache, bin, stubFile, modIndex, prompts, started, timing>>

\* serde_json::to_writer_pretty(file, &d)?
CredSerialize(p) ==
    LET r == proc[p]  old == Unwrap(cred) IN
    /\ r.pc = "r_cred_ser"
    /\ \/ /\ cred' = Some(WriteAt0(old, ToJson(r.session)))
          /\ Set(p, Goto(Did(r, "cred_write"), "r_input_exists"))
       \/ /\ \E c \in PartialWrites(old, ToJson(r.session)) : cred' = Some(c)
          /\ Set(p, Propagate(Did(r, "cred_write"), "Could not serialize data", <<>>))
    /\ UNCHANGED <<cache, bin, stubFile, modIndex, prompts, started, timing>>

\* File::open(&data_dir)?
CredOpen(p) ==
    LET r == proc[p] IN
    /\ r.pc = "r_cred_open"
    /\ \/ Set(p, Propagate(r, "Could not open data file", <<>>))
       \/ Set(p, Goto(Did(r, "cred_open"), "r_cred_read"))
    /\ UNCHANGED <<fsVars, prompts, started, timing>>

\* serde_json::from_reader(file)?
CredRead(p) ==
    LET r == proc[p]  parsed == FromJson(Unwrap(cred)) IN
    /\ r.pc = "r_cred_read"
    /\ \/ \* the content does not parse, or the read fails
          Set(p, Propagate(Did(r, "cred_read"), "Could not read data file", <<>>))
       \/ /\ IsSome(parsed)
          /\ Set(p, Goto([Did(r, "cred_read") EXCEPT !.session = Unwrap(parsed)],
                         "r_input_exists"))
    /\ UNCHANGED <<fsVars, prompts, started, timing>>

\* InputExists without the existence test: the input is always fetched.
InputExistsIgnored(p) ==
    LET r == proc[p]  input == InputPath(r.day)
        seen == [r EXCEPT !.inputSeen = Some(cache[input])] IN
    /\ r.pc = "r_input_exists"
    /\ \E now \in NowYears :
          Set(p, Goto([seen EXCEPT !.year = ResolveYear(r.yearArg, now)], "r_send"))
    /\ UNCHANGED <<fsVars, prompts, started, timing>>

\* if !input.exists() { let year = args.year.unwrap_or_else(now) ...
InputExists(p) ==
    LET r == proc[p]  input == InputPath(r.day)
        seen == [r EXCEPT !.inputSeen = Some(cache[input])] IN
    /\ r.pc = "r_input_exists"
    /\ IF cache[input] # None
       THEN Set(p, Goto(seen, "r_bin_exists"))
       ELSE \E now \in NowYears :
              Set(p, Goto([seen EXCEPT !.year = ResolveYear(r.yearArg, now)], "r_send"))
    /\ UNCHANGED <<fsVars, prompts, started, timing>>

\* Fetch without error_for_status(): the body of an error response is taken
\* as the input (4 stands for the error page).
FetchNoStatusCheck(p) ==
    LET r == proc[p]  d == r.day
        sent == [Did(r, "net") EXCEPT !.netCalls = @ + 1] IN
    /\ r.pc = "r_send"
    /\ \/ Set(p, Propagate([sent EXCEPT !.response = "transport_error"],
                            "Could not fetch the input", <<d, r.year>>))
       \/ Set(p, Goto([sent EXCEPT !.response = "status_404", !.body = <<4>>],
                      "r_cache_open"))
       \/ Set(p, Goto([sent EXCEPT !.response = "status_200", !.body = Remote(r.year, d)],
                      "r_cache_open"))
    /\ UNCHANGED <<fsVars, prompts, started, timing>>

\* client.get(url).header(cookie).send().await? .error_for_status()? .text().await?
Fetch(p) ==
    LET r == proc[p]  d == r.day
        sent == [Did(r, "net") EXCEPT !.netCalls = @ + 1] IN
    /\ r.pc = "r_send"
    /\ \/ Set(p, Propagate([sent EXCEPT !.response = "transport_error"],
                            "Could not fetch the input", <<d, r.year>>))
       \/ Set(p, Propagate([sent EXCEPT !.response = "status_404"],
                            "Error accessing the input", <<d, r.year>>))
       \/ Set(p, Propagate([sent EXCEPT !.response = "body_error"],
                            "Error reading the body of the response", <<>>))
       \/ Set(p, Goto([sent EXCEPT !.response = "status_200", !.body = Remote(r.year, d)],
                      "r_cache_open"))
    /\ UNCHANGED <<fsVars, prompts, started, timing>>

\* OpenOptions::new().create(true).write(true).open(&input)?
CacheOpen(p) ==
    LET r == proc[p]  input == InputPath(r.day) IN
    /\ r.pc = "r_cache_open"
    /\ \/ /\ Set(p, Propagate(r, "Could not open file", input))
          /\ UNCHANGED cache
       \/ /\ cache' = [cache EXCEPT ![input] = IF @ = None THEN Some(<<>>) ELSE @]
          /\ Set(p, Goto(Did(r, IF cache[input] = None THEN "cache_create" ELSE "cache_open"),
                         "r_cache_write"))
    /\ UNCHANGED <<cred, bin, stubFile, modIndex, prompts, started, timing>>

\* CacheWrite with write() in place of write_all(): a short write is taken
\* for success.
CacheWriteShort(p) ==
    LET r == proc[p]  input == InputPath(r.day)  old == Unwrap(cache[input]) IN
    /\ r.pc = "r_cache_write"
    /\ \E c \in PartialWrites(old, r.body) \cup {WriteAt0(old, r.body)} :
          cache' = [cache EXCEPT ![input] = Some(c)]
    /\ Set(p, Goto(Did(r, "cache_write"), "r_bin_exists"))
    /\ UNCHANGED <<cred, bin, stubFile, modIndex, prompts, started, timing>>

\* writer.write_all(body.as_bytes())?
CacheWrite(p) ==
    LET r == proc[p]  input == InputPath(r.day)  old == Unwrap(cache[input]) IN
    /\ r.pc = "r_cache_write"
    /\ \/ /\ cache' = [cache EXCEPT ![input] = Some(WriteAt0(old, r.body))]
          /\ Set(p, Goto(Did(r, "cache_write"), "r_bin_exists"))
       \/ /\ \E c \in PartialWrites(old, r.body) : cache' = [cache EXCEPT ![input] = Some(c)]
          /\ Set(p, Propagate(Did(r, "cache_write"), "Could not write to file", input))
    /\ UNCHANGED <<cred, bin, stubFile, modIndex, prompts, started, timing>>

\* BinExists with the generation left out.
BinExistsSkip(p) ==
    LET r == proc[p] IN
    /\ r.pc = "r_bin_exists"
    /\ Set(p, Goto(r, "r_spawn"))
    /\ UNCHANGED <<fsVars, prompts, started, timing>>

\* BinExists without the existence test: the entry point is always generated.
BinExistsRegenerate(p) ==
    LET r == proc[p] IN
    /\ r.pc = "r_bin_exists"
    /\ Set(p, Goto(r, "r_render"))
    /\ UNCHANGED <<fsVars, prompts, started, timing>>

\* if !executable.exists()
BinExists(p) ==
    LET r == proc[p]  d == r.day IN
    /\ r.pc = "r_bin_exists"
    /\ Set(p, Goto(r, IF bin[d] # None THEN "r_spawn" ELSE "r_render"))
    /\ UNCHANGED <<fsVars, prompts, started, timing>>

\* Render with the file opened before the template is rendered: a rendering
\* failure leaves the empty file.
RenderAfterCreate(p) ==
    LET r == proc[p]  d == r.day IN
    /\ r.pc = "r_render"
    /\ \/ /\ Set(p, Propagate(Did(r, "render"), "Could not render day binary template", <<>>))
          /\ bin' = [bin EXCEPT ![d] = IF @ = None THEN Some(<<>>) ELSE @]
       \/ /\ Set(p, Goto(Did(r, "render"), "r_bin_create"))
          /\ UNCHANGED bin
    /\ UNCHANGED <<cred, cache, stubFile, modIndex, prompts, started, timing>>

\* reg.render_template(DAY_EXEC_TEMPLATE, &json!({ "day": &day_name }))?
Render(p) ==
    LET r == proc[p] IN
    /\ r.pc = "r_render"
    /\ \/ Set(p, Propagate(Did(r, "render"), "Could not render day binary template", <<>>))
       \/ Set(p, Goto(Did(r, "render"), "r_bin_create"))
    /\ UNCHANGED <<fsVars, prompts, started, timing>>

\* BinCreate with create(true) in place of create_new(true).
BinCreateNotExclusive(p) ==
    LET r == proc[p]  d == r.day IN
    /\ r.pc = "r_bin_create"
    /\ \/ /\ Set(p, Propagate(r, "Could not open the bin/day file", <<>>))
          /\ UNCHANGED bin
       \/ /\ bin' = [bin EXCEPT ![d] = IF @ = None THEN Some(<<>>) ELSE @]
          /\ Set(p, Goto(Did(r, "bin_create"), "r_bin_write"))
    /\ UNCHANGED <<cred, cache, stubFile, modIndex, prompts, started, timing>>

\* OpenOptions::new().create_new(true).write(true).open(executable)?
BinCreate(p) ==
    LET r == proc[p]  d == r.day IN
    /\ r.pc = "r_bin_create"
    /\ \/ \* the file exists by now, or the open fails for another reason
          /\ Set(p, Propagate(r, "Could not open the bin/day file", <<>>))
          /\ UNCHANGED bin
       \/ /\ bin[d] = None
          /\ bin' = [bin EXCEPT ![d] = Some(<<>>)]
          /\ Set(p, Goto(Did(r, "bin_create"), "r_bin_write"))
    /\ UNCHANGED <<cred, cache, stubFile, modIndex, prompts, started, timing>>

\* exec_file.write_all(exec_code.as_bytes())?
BinWrite(p) ==
    LET r == proc[p]  d == r.day  old == Unwrap(bin[d])
        code == RenderExec(DayName(d)) IN
    /\ r.pc = "r_bin_write"
    /\ \/ /\ bin' = [bin EXCEPT ![d] = Some(WriteAt0(old, code))]
          /\ Set(p, Goto(Did(r, "bin_write"), "r_spawn"))
       \/ /\ \E c \in PartialWrites(old, code) : bin' = [bin EXCEPT ![d] = Some(c)]
          /\ Set(p, Propagate(Did(r, "bin_write"), "Could not write the bin/day file", <<>>))
    /\ UNCHANGED <<cred, cache, stubFile, modIndex, prompts, started, timing>>

\* Spawn with the exit status of the child turned into an error.
SpawnCheckStatus(p) ==
    LET r == proc[p]  d == r.day IN
    /\ r.pc = "r_spawn"
    /\ \/ Set(p, Propagate(r, "Could not execute the program", <<>>))
       \/ \E part \in Parts, status \in {0, 101} :
            LET ran == [Did(r, "spawn") EXCEPT
                          !.child = Some([args |-> [name |-> DayName(d), part |-> part,
                                                    input |-> InputPath(d)],
                                          status |-> status])] IN
            Set(p, IF status = 0 THEN Return(ran)
                   ELSE Propagate(ran, "The program failed", <<>>))
    /\ UNCHANGED <<fsVars, prompts, started, timing>>

\* The command line of the child: cargo run --release --features dayN
\* --bin dayN -- --part P --input <input>
ChildArgs(d, part) == [name |-> DayName(d), part |-> part, input |-> InputPath(d)]

\* Command::new("cargo").args(..).arg(input).status().await?; Ok(())
\* args.part is read here only; the exit status of the child is dropped.
Spawn(p) ==
    LET r == proc[p]  d == r.day IN
    /\ r.pc = "r_spawn"
    /\ \/ Set(p, Propagate(r, "Could not execute the program", <<>>))
       \/ \E part \in Parts, status \in {0, 101} :
            Set(p, Return([Did(r, "spawn") EXCEPT
                            !.child = Some([args |-> ChildArgs(d, part), status |-> status])]))
    /\ UNCHANGED <<fsVars, prompts, started, timing>>

Run(p) ==
    \/ DataDir(p) \/ CredExists(p) \/ Prompt(p) \/ CredCreate(p) \/ CredSerialize(p)
    \/ CredOpen(p) \/ CredRead(p) \/ InputExists(p) \/ Fetch(p) \/ CacheOpen(p)
    \/ CacheWrite(p) \/ BinExists(p) \/ Render(p) \/ BinCreate(p) \/ BinWrite(p)
    \/ Spawn(p)

\* -------------------------------------------------------- specifications
\* The documented way of use: one instance of the tool at a time.
Next == Main(1) \/ Run(1) \/ Stub(1)

Spec == Init /\ [][Next]_vars

\* Overlapping stub invocations on the same source tree.
MainStub(p) == Main(p) /\ proc'[p].command = "stub"

NextStubs == \E p \in Procs : MainStub(p) \/ Stub(p)

SpecStubs == Init /\ [][NextStubs]_vars

\* Two overlapping run invocations, one per process, on a source tree with
\* no entry-point artifact.
RunPair == {1, 2}

MainRunOnce(p) == proc[p].pc = "idle" /\ Main(p) /\ proc'[p].command = "run"

NextRuns == \E p \in RunPair : MainRunOnce(p) \/ Run(p)

InitRuns ==
    /\ timing = NoTiming
    /\ cred \in {None, Some(ToJson(41))}
    /\ cache \in [CachePaths -> {None, Some(Arbitrary)}]
    /\ bin = [d \in Days |-> None]
    /\ stubFile = [d \in Days |-> None]
    /\ modIndex = Some(<<>>)
    /\ proc = [p \in Procs |-> IdleProc]
    /\ prompts = 0
    /\ started = 0

SpecRuns == InitRuns /\ [][NextRuns]_vars

\* The duration display alone, on sampled elapsed times.
InitDuration ==
    /\ timing \in { [elapsed |-> e, shown |-> None] : e \in ElapsedSamples }
    /\ cred = None
    /\ cache = [q \in CachePaths |-> None]
    /\ bin = [d \in Days |-> None]
    /\ stubFile = [d \in Days |-> None]
    /\ modIndex = Some(<<>>)
    /\ proc = [p \in Procs |-> IdleProc]
    /\ prompts = 0
    /\ started = 0

Report ==
    /\ timing.shown = None
    /\ timing' = [timing EXCEPT !.shown = Some(FormatDuration(timing.elapsed))]
    /\ UNCHANGED <<fsVars, proc, prompts, started>>

NextDuration == Report

SpecDuration == InitDuration /\ [][NextDuration]_vars

\* ---------------------------------------------------------------- claims
\* Number of `pub mod dayN;` lines for day d in src/problems/mod.rs.
Registered(d) == IF modIndex = None THEN 0 ELSE Count(Unwrap(modIndex), ModLine(d))

\* A stub invocation has ended that found the stub file of its day in place:
\* under Spec, where no stub file exists at first, a second or later
\* invocation of stub for that day.
StubFoundExisting(p) ==
    /\ proc[p].command = "stub"
    /\ proc[p].pc = "failed"
    /\ proc[p].err.msg = "Could not open day stub file"
    /\ stubFile[proc[p].day] # None

\* The stub file of day d is complete and registered: a stub invocation for
\* d has completed.
StubCompleted(d) == stubFile[d] = Some(DAY_PROBLEM_STUB) /\ Registered(d) = 1

\* C1 as stated, in the case where the first invocation completed: after the
\* second stub invocation for a day there is one stub artifact, one
\* entry-point artifact and exactly one registration line for that day.
C1_Original ==
    \A p \in Procs :
        (StubFoundExisting(p) /\ StubCompleted(proc[p].day)) =>
            /\ stubFile[proc[p].day] = Some(DAY_PROBLEM_STUB)
            /\ bin[proc[p].day] # None
            /\ Registered(proc[p].day) = 1

\* C1 amended: stub creates no entry-point artifact; a stub invocation that
\* completes leaves the stub artifact and exactly one registration line for
\* its day; the index never holds more than one registration line for a day
\* and never loses one; an invocation that finds the stub file in place fails
\* at the exclusive creation having generated nothing, attempted no
\* registration and changed no file.
C1_StubTwice ==
    [][ /\ \A p \in Procs :
            LET r == proc[p]  r2 == proc'[p]  d == proc[p].day IN
            /\ (r.pc = "s_create" /\ stubFile[d] # None /\ r2 # r) =>
                  (fsVars' = fsVars /\ r2.pc = "failed" /\ r2.effects = {})
            /\ (r.command = "stub" /\ Running(p) /\ r2.pc = "done") =>
                  (stubFile'[d] = Some(DAY_PROBLEM_STUB) /\ Registered(d)' = 1)
            /\ (r.command = "stub" /\ Running(p)) => bin' = bin
        /\ \A d \in Days :
            /\ Registered(d)' <= 1
            /\ Registered(d)' >= Registered(d)
            /\ Registered(d) = 1 => stubFile'[d] = stubFile[d]
      ]_vars

\* A second stub invocation for a day has ended after the first completed,
\* and the day has no entry-point artifact.
C1_Witness ==
    \E p \in Procs :
        /\ StubFoundExisting(p)
        /\ stubFile[proc[p].day] = Some(DAY_PROBLEM_STUB)
        /\ Registered(proc[p].day) = 1
        /\ bin[proc[p].day] = None

\* What the steps of the input cache do to an invocation's environment.
CacheEffects == {"net", "cache_create", "cache_open", "cache_write"}
\* What the steps of the scaffold generator in run do.
ScaffoldEffects == {"render", "bin_create", "bin_write"}

\* C2: a run that finds the cache file of its day in place with content C
\* sends no request and does not open the cache file, the file still holds C,
\* and the --input argument of the child is the path of that file.
C2_CacheHit ==
    \A p \in Procs :
        LET r == proc[p]  input == InputPath(proc[p].day) IN
        (r.command = "run" /\ IsSome(r.inputSeen) /\ IsSome(Unwrap(r.inputSeen))) =>
            /\ r.netCalls = 0
            /\ r.response = "none"
            /\ r.effects \cap CacheEffects = {}
            /\ cache[input] = Unwrap(r.inputSeen)
            /\ IsSome(r.child) => Unwrap(r.child).args.input = input

\* A run found the operator's cache file in place and spawned the child.
C2_Witness ==
    \E p \in Procs :
        /\ proc[p].pc = "done"
        /\ proc[p].inputSeen = Some(Some(Arbitrary))
        /\ IsSome(proc[p].child)
        /\ cache[Unwrap(proc[p].child).args.input] = Some(Arbitrary)

\* C3: a run that finds no cache file for its day and gets status 200 with
\* body B sends exactly one request, creates exactly one file under the cache
\* root, the file of its day, and once the write has returned that file holds
\* B byte for byte; no other step of run changes a cache file.
C3_CacheMiss ==
    [][ \A p \in Procs :
          LET r == proc[p]  r2 == proc'[p]  input == InputPath(proc[p].day) IN
          /\ (r.pc = "r_cache_open" /\ r2.pc = "r_cache_write") =>
                /\ cache[input] = None
                /\ cache' = [cache EXCEPT ![input] = Some(<<>>)]
          /\ (r.pc = "r_cache_write" /\ r2.pc = "r_bin_exists") =>
                /\ r.inputSeen = Some(None)
                /\ r.response = "status_200"
                /\ r.body = Remote(r.year, r.day)
                /\ r2.netCalls = 1
                /\ "cache_create" \in r2.effects
                /\ cache' = [cache EXCEPT ![input] = Some(r.body)]
          /\ (r.command = "run" /\ Running(p) /\ r.pc \notin {"r_cache_open", "r_cache_write"}) =>
                cache' = cache
          /\ (r.command = "run" /\ Running(p)) =>
                (r2.netCalls >= r.netCalls /\ r2.netCalls <= 1)
      ]_vars

\* A run missed the cache, fetched a two-byte body and has written it.
C3_Witness ==
    \E p \in Procs :
        /\ proc[p].pc = "r_bin_exists"
        /\ proc[p].inputSeen = Some(None)
        /\ proc[p].netCalls = 1
        /\ Len(proc[p].body) = 2
        /\ cache[InputPath(proc[p].day)] = Some(proc[p].body)

\* C4: when the request fails in transport or is answered with a non-success
\* status, the run has failed with an error that carries the day and the
\* year of the request, no cache file exists for the day, and neither the
\* scaffold step nor the child was started.
C4_FetchFailure ==
    \A p \in Procs :
        LET r == proc[p]  input == InputPath(proc[p].day) IN
        r.response \in {"transport_error", "status_404"} =>
            /\ r.pc = "failed"
            /\ r.err.msg = IF r.response = "status_404"
                           THEN "Error accessing the input"
                           ELSE "Could not fetch the input"
            /\ \E now \in NowYears : r.err.ctx = <<r.day, ResolveYear(r.yearArg, now)>>
            /\ r.inputSeen = Some(None)
            /\ cache[input] = None
            /\ r.effects \cap (CacheEffects \cup ScaffoldEffects \cup {"spawn"}) = {"net"}
            /\ r.child = None

\* A request for (2020, d) was answered with a non-success status.
C4_Witness ==
    \E p \in Procs :
        /\ proc[p].response = "status_404"
        /\ proc[p].pc = "failed"
        /\ proc[p].err.ctx = <<proc[p].day, 2020>>

\* The stage of run a step, an effect or an error message belongs to:
\* 1 credential load, 2 input fetch and cache, 3 scaffold, 4 dispatch.
CredEffects == {"prompt", "cred_create", "cred_truncate", "cred_write", "cred_open", "cred_read"}
StubEffects == {"stub_create", "stub_write", "mod_open", "mod_append"}

StageOfEffect(e) ==
    CASE e \in CredEffects -> 1
      [] e \in CacheEffects -> 2
      [] e \in ScaffoldEffects -> 3
      [] OTHER -> 4

StageOfPc(pc) ==
    CASE pc \in {"r_datadir", "r_cred_exists", "r_prompt", "r_cred_create",
                 "r_cred_ser", "r_cred_open", "r_cred_read"} -> 1
      [] pc \in {"r_input_exists", "r_send", "r_cache_open", "r_cache_write"} -> 2
      [] pc \in {"r_bin_exists", "r_render", "r_bin_create", "r_bin_write"} -> 3
      [] OTHER -> 4

StageOfErr(msg) ==
    CASE msg = "invalid value for --day" -> 0
      [] msg \in {"No data dir found", "Could not read the session value",
                  "Could not open data file", "Could not serialize data",
                  "Could not read data file"} -> 1
      [] msg \in {"Could not fetch the input", "Error accessing the input",
                  "Error reading the body of the response", "Could not open file",
                  "Could not write to file"} -> 2
      [] msg \in {"Could not render day binary template", "Could not open the bin/day file",
                  "Could not write the bin/day file"} -> 3
      [] OTHER -> 4

\* The stage a run is in, or failed in.
StageOf(r) == IF r.pc = "failed" THEN StageOfErr(r.err.msg) ELSE StageOfPc(r.pc)

\* C5: run goes through credential load, input fetch and cache, scaffold and
\* dispatch in that order: nothing of a later stage has happened while run is
\* in, or has failed in, an earlier one; a stage is entered only with the
\* result of the stage before it in place; and an error ends the run.
C5_StageOrder ==
    \A p \in Procs :
        LET r == proc[p]  d == proc[p].day IN
        (r.command = "run" /\ r.pc # "idle") =>
            /\ r.err.msg # "" => r.pc = "failed"
            /\ \A e \in r.effects : StageOfEffect(e) <= StageOf(r)
            /\ StageOf(r) >= 2 => ("cred_read" \in r.effects \/ "cred_write" \in r.effects)
            /\ StageOf(r) >= 3 => cache[InputPath(d)] # None
            /\ StageOf(r) >= 4 => bin[d] # None
            /\ IsSome(r.child) => r.pc = "done"

\* A run prompted, fetched and cached the input, then failed in the scaffold
\* stage: no child was spawned.
C5_Witness ==
    \E p \in Procs :
        /\ proc[p].pc = "failed"
        /\ proc[p].err.msg = "Could not render day binary template"
        /\ {"prompt", "cred_write", "net", "cache_write"} \subseteq proc[p].effects
        /\ proc[p].child = None

\* C6 as stated: when run reaches the dispatcher, the entry-point artifact
\* and the problem-stub artifact of the day both exist.
C6_Original ==
    \A p \in Procs :
        (proc[p].command = "run" /\ proc[p].pc = "r_spawn") =>
            (bin[proc[p].day] # None /\ stubFile[proc[p].day] # None)

\* C6 amended: when run reaches the dispatcher, the entry-point artifact of
\* the day exists, and holds the rendered template if this run generated it;
\* run does not create or register the problem stub.
C6_EntryPointAtDispatch ==
    \A p \in Procs :
        LET r == proc[p]  d == proc[p].day IN
        (r.command = "run" /\ (r.pc = "r_spawn" \/ IsSome(r.child))) =>
            /\ bin[d] # None
            /\ "bin_create" \in r.effects => bin[d] = Some(RenderExec(DayName(d)))
            /\ r.effects \cap StubEffects = {}

\* A run generated the entry point and is at the dispatcher while the day has
\* no problem stub.
C6_Witness ==
    \E p \in Procs :
        /\ proc[p].pc = "r_spawn"
        /\ "bin_write" \in proc[p].effects
        /\ bin[proc[p].day] = Some(RenderExec(DayName(proc[p].day)))
        /\ stubFile[proc[p].day] = None

\* C7: when the entry-point artifact of the day exists, the scaffold step of
\* run is the existence test alone: it renders nothing, opens nothing, leaves
\* every entry-point file as it is and goes on to the dispatcher, which does
\* not touch the file either.
C7_ExistingEntryPoint ==
    [][ \A p \in Procs :
          LET r == proc[p]  r2 == proc'[p]  d == proc[p].day IN
          /\ (r.pc = "r_bin_exists" /\ bin[d] # None /\ r2 # r) =>
                /\ r2.pc = "r_spawn"
                /\ r2.err = NoErr
                /\ r2.effects = r.effects
                /\ bin' = bin
          /\ (r.pc = "r_spawn" /\ r2 # r) =>
                /\ bin' = bin
                /\ r2.effects \cap ScaffoldEffects = r.effects \cap ScaffoldEffects
      ]_vars

\* A run found the operator's entry point in place and spawned the child.
C7_Witness ==
    \E p \in Procs :
        /\ proc[p].pc = "done"
        /\ IsSome(proc[p].child)
        /\ proc[p].effects \cap ScaffoldEffects = {}
        /\ bin[proc[p].day] = Some(Arbitrary)

\* C8 as stated: over any sequence of runs the operator answers the prompt
\* at most once.
C8_Original == prompts <= 1

\* C8 amended: the operator is prompted only by a run that finds no
\* credential file; that run persists the answer; while a credential file
\* exists (and no run is in the middle of writing the file it has just
\* created) no step prompts or changes the file, and a run takes its session
\* value from the file.
C8_PromptOnlyWhenAbsent ==
    [][ /\ (cred # None /\ \A p \in Procs : proc[p].pc # "r_cred_ser") =>
              (cred' = cred /\ prompts' = prompts)
        /\ \A p \in Procs :
              LET r == proc[p]  r2 == proc'[p] IN
              /\ (r.pc = "r_prompt" /\ r2 # r) => cred = None
              /\ (r.pc = "r_cred_ser" /\ r2.pc = "r_input_exists") =>
                    (cred' = Some(ToJson(r.session)) /\ FromJson(Unwrap(cred')) = Some(r2.session))
              /\ (r.pc = "r_cred_read" /\ r2.pc = "r_input_exists") =>
                    (cred' = cred /\ FromJson(Unwrap(cred)) = Some(r2.session))
      ]_vars

\* A second run has read the credential a first run prompted for and stored.
C8_Witness ==
    \E p \in Procs :
        /\ prompts = 1
        /\ started = 2
        /\ proc[p].pc = "r_input_exists"
        /\ "cred_read" \in proc[p].effects
        /\ cred = Some(ToJson(proc[p].session))

\* C9: a stub invocation only creates and writes the stub file and appends
\* to the module index: none of its steps changes the credential file, a
\* cache file or an entry-point file, prompts, sends a request or spawns a
\* child, and it reads no credential.
C9_StubFrame ==
    [][ \A p \in Procs :
          LET r == proc[p]  r2 == proc'[p] IN
          (r.command = "stub" /\ Running(p) /\ r2 # r) =>
              /\ cred' = cred
              /\ cache' = cache
              /\ bin' = bin
              /\ prompts' = prompts
              /\ r2.netCalls = 0
              /\ r2.child = None
              /\ r2.effects \subseteq StubEffects
              /\ r.pc \in {"s_create", "s_write", "s_mod_open", "s_mod_write"}
      ]_vars

\* A stub invocation has completed.
C9_Witness ==
    \E p \in Procs :
        /\ proc[p].command = "stub"
        /\ proc[p].pc = "done"
        /\ proc[p].effects = StubEffects

\* C10: with overlapping stub invocations the module index never holds more
\* than one registration for a day; at most one invocation creates the stub
\* file of a day, only that one goes on to write the stub and to open and
\* append to the index, and every other one has failed with nothing done.
C10_SingleRegistration ==
    /\ \A d \in Days :
          /\ Registered(d) <= 1
          /\ modIndex # None => Count(Unwrap(modIndex), CfgLine(d)) <= 1
          /\ Cardinality({ p \in Procs : /\ proc[p].command = "stub"
                                         /\ proc[p].day = d
                                         /\ "stub_create" \in proc[p].effects }) <= 1
    /\ \A p \in Procs :
          LET r == proc[p] IN
          (r.command = "stub" /\ "stub_create" \notin r.effects) =>
              /\ r.effects = {}
              /\ r.pc \in {"s_create", "failed"}

\* One invocation is about to append the registration of a day while another
\* for the same day has failed at the creation of the stub file.
C10_Witness ==
    \E p, q \in Procs :
        /\ p # q
        /\ proc[p].day = proc[q].day
        /\ proc[p].pc = "s_mod_write"
        /\ StubFoundExisting(q)

\* C11: with two overlapping runs for a day that has no entry-point
\* artifact, at most one run creates the entry-point file and only that run
\* writes to it; a run whose exclusive creation failed has failed for good:
\* it wrote nothing to the file and spawned no child.
C11_ExclusiveEntryPoint ==
    /\ \A d \in Days :
          Cardinality({ p \in Procs : /\ proc[p].command = "run"
                                      /\ proc[p].day = d
                                      /\ "bin_create" \in proc[p].effects }) <= 1
    /\ \A p \in Procs :
          LET r == proc[p] IN
          /\ "bin_write" \in r.effects => "bin_create" \in r.effects
          /\ r.pc = "r_bin_write" => "bin_create" \in r.effects
          /\ r.err.msg = "Could not open the bin/day file" =>
                /\ r.pc = "failed"
                /\ r.effects \cap {"bin_create", "bin_write", "spawn"} = {}
                /\ r.child = None

\* Both runs found no entry point for the same day and rendered the
\* template; one created the file, the other failed at the creation.
C11_Witness ==
    \E p, q \in Procs :
        /\ p # q
        /\ proc[p].day = proc[q].day
        /\ "bin_create" \in proc[p].effects
        /\ "render" \in proc[q].effects
        /\ proc[q].pc = "failed"
        /\ proc[q].err.msg = "Could not open the bin/day file"
        /\ bin[proc[q].day] # None

\* C12: once the child has been spawned run returns Ok whatever the exit
\* status of the child; the dispatch step fails only when the spawn fails,
\* and then there is no child.
C12_ExitStatusIgnored ==
    \A p \in Procs :
        LET r == proc[p] IN
        /\ IsSome(r.child) => (r.pc = "done" /\ r.err = NoErr /\ "spawn" \in r.effects)
        /\ (r.command = "run" /\ r.pc = "failed" /\ StageOfErr(r.err.msg) = 4) =>
              /\ r.err.msg = "Could not execute the program"
              /\ r.child = None
              /\ "spawn" \notin r.effects

\* A run has returned Ok after its child exited with a non-zero status.
C12_Witness ==
    \E p \in Procs :
        /\ proc[p].pc = "done"
        /\ IsSome(proc[p].child)
        /\ Unwrap(proc[p].child).status = 101

\* C13: a failure to render the entry-point template ends the run with no
\* entry-point file for the day on disk: the file is opened only after the
\* rendering has succeeded.
C13_RenderFailureLeavesNoFile ==
    \A p \in Procs :
        LET r == proc[p] IN
        /\ r.err.msg = "Could not render day binary template" =>
              /\ r.pc = "failed"
              /\ bin[r.day] = None
              /\ r.effects \cap {"bin_create", "bin_write", "spawn"} = {}
        /\ r.pc \in {"r_bin_create", "r_bin_write"} => "render" \in r.effects
        /\ "bin_create" \in r.effects => "render" \in r.effects

\* A run found no entry point and failed to render the template.
C13_Witness ==
    \E p \in Procs :
        /\ proc[p].pc = "failed"
        /\ proc[p].err.msg = "Could not render day binary template"
        /\ bin[proc[p].day] = None

\* The day an invocation has to use: the --day argument when there is one,
\* else the day of month the local clock reported.
ExpectedDay(r) == IF IsSome(r.dayArg) THEN Unwrap(r.dayArg) ELSE Unwrap(r.today)

\* C14: an invocation whose arguments were accepted works on the day given
\* by --day when there is one, and else on the day of month the local clock
\* reported: that is the day of the stub file it creates and of the binary
\* it has cargo run.
C14_DayResolution ==
    \A p \in Procs :
        LET r == proc[p] IN
        (r.command \in {"run", "stub"} /\ r.err.msg # "invalid value for --day") =>
            /\ IsSome(r.dayArg) \/ IsSome(r.today)
            /\ r.day = ExpectedDay(r)
            /\ "stub_create" \in r.effects => stubFile[ExpectedDay(r)] # None
            /\ "bin_create" \in r.effects => bin[ExpectedDay(r)] # None
            /\ IsSome(r.child) =>
                  /\ Unwrap(r.child).args.name = DayName(ExpectedDay(r))
                  /\ Unwrap(r.child).args.input = InputPath(ExpectedDay(r))

\* A run with --day 7 has spawned the child for day 7 after a stub invocation
\* without --day created the stub of the clock's day, 31.
C14_Witness ==
    \E p \in Procs :
        /\ proc[p].dayArg = Some(7)
        /\ IsSome(proc[p].child)
        /\ Unwrap(proc[p].child).args.name = DayName(7)
        /\ stubFile[31] # None

\* The unit the display chose for an elapsed time of ns nanoseconds, once shown.
ShownIn(ns, unit) ==
    (timing.elapsed = ns /\ IsSome(timing.shown)) => Unwrap(timing.shown).unit = unit

Quiescent == \A p \in Procs : ~Running(p)

\* C16: once every invocation has ended, failed ones included, the stub file
\* of a day exists if and only if the module index holds the registration
\* line of that day. Stated for stub files that were written in full, so
\* that what refutes it is a failure at the module index.
C16_StubIffRegistered ==
    Quiescent =>
        \A d \in Days :
            /\ stubFile[d] = Some(DAY_PROBLEM_STUB) => Registered(d) = 1
            /\ Registered(d) = 1 => stubFile[d] # None

\* The years a run may ask the puzzle host for.
RequestYears == { ResolveYear(y, now) : y \in YearArgs, now \in NowYears }

\* The year of the request (year, day) invocation r stands for.
RequestedYears(r) == { ResolveYear(r.yearArg, now) : now \in NowYears }

\* C17: when run has started the child for the request (year, day) and the
\* input file it forwards holds a body fetched from the puzzle host, that
\* body is the one of the same (year, day).
C17_CacheKeyedByYear ==
    \A p \in Procs :
        LET r == proc[p]  content == cache[InputPath(proc[p].day)] IN
        (r.command = "run" /\ IsSome(r.child) /\ IsSome(content)
            /\ Unwrap(content) \in { Remote(y, r.day) : y \in RequestYears }) =>
            Unwrap(content) \in { Remote(y, r.day) : y \in RequestedYears(r) }

\* The contents a cache file of day d may hold in full: what was in place
\* before the first invocation, or the body of a successful response.
CompleteInputs(d) == {Arbitrary} \cup { Remote(y, d) : y \in RequestYears }

\* C18: once every invocation has ended, every cache file that exists holds
\* a complete body, and no run takes an empty or partial file for a cache hit.
C18_CacheComplete ==
    /\ Quiescent =>
          \A d \in Days :
              IsSome(cache[InputPath(d)]) =>
                  Unwrap(cache[InputPath(d)]) \in CompleteInputs(d)
    /\ \A p \in Procs :
          LET r == proc[p] IN
          (r.command = "run" /\ IsSome(r.inputSeen) /\ IsSome(Unwrap(r.inputSeen))) =>
              Unwrap(Unwrap(r.inputSeen)) \in CompleteInputs(r.day)

\* C19: once every invocation has ended, a credential file that exists
\* deserializes to a credential.
C19_CredentialParses ==
    (Quiescent /\ IsSome(cred)) => IsSome(FromJson(Unwrap(cred)))

\* C20: the day an accepted invocation works on is within 1..24, and no stub
\* file is created for a day outside 1..24.
C20_DayInRange ==
    /\ \A p \in Procs :
          (proc[p].command \in {"run", "stub"}
              /\ proc[p].err.msg # "invalid value for --day") =>
              proc[p].day \in 1..24
    /\ \A d \in Days : stubFile[d] # None => d \in 1..24

====
